---- MODULE Spec2Model ----
(***************************************************************************)
(* Model of FinalProject.cpp: load a point cloud, estimate one plane       *)
(* (centroid + normal) per point from its radius neighbourhood, build a    *)
(* tagged k-d tree over the centroids and compute, for every centroid, the *)
(* k-by-k weight matrix of its neighbourhood.                              *)
(*                                                                         *)
(* Representation of doubles: a real x is the integer x * Scale (fixed     *)
(* point).  Scale is the least common multiple of 1..MaxN, so that every   *)
(* division sum / k the program performs (k <= nPoints <= MaxN) on the     *)
(* integer-valued coordinates of the model is exact, as it is in doubles   *)
(* up to rounding of the quotient.                                         *)
(***************************************************************************)
EXTENDS Integers, Sequences, FiniteSets, TLC

VARIABLES
    pc,             \* position of main
    source,         \* the vertex stream the OBJ file holds (input)
    loaded,         \* bool loaded (main, line 255)
    exitStatus,     \* value returned by main, NotExited while running
    vertices,       \* pcloud.vertices
    nPoints,        \* nPoints (line 264)
    points,         \* points (line 265)
    kdt,            \* kdt (line 270)
    normals,        \* normals (line 275), defined where written
    centroids,      \* centroids (line 277), defined where written
    tagsCentroids,  \* tagsCentroids (line 279), defined where written
    i,              \* loop index of the current for loop
    neighbors,      \* neighbors of the last query
    k,              \* k of the last query, NoQuery before the first one
    pcaV,           \* pcaV of the last calculateNormal
    tags,           \* tags of the last tagged query
    kdtCentroids,   \* kdtCentroids (line 327)
    taggedBuilds,   \* number of calls of buildTaggedKDTree
    graph,          \* graph of the last centroid iteration
    liveGraphs,     \* number of weight matrices allocated and not released
    run,            \* 1 in the first run of the pipeline, 2 in the second
    prevCentroids,  \* centroids of the first run
    prevNormals     \* normals of the first run

vars == <<pc, source, loaded, exitStatus, vertices, nPoints, points, kdt,
          normals, centroids, tagsCentroids, i, neighbors, k, pcaV, tags,
          kdtCentroids, taggedBuilds, graph, liveGraphs, run, prevCentroids,
          prevNormals>>

----------------------------------------------------------------------------
(* Constants of the program and bounds of the model *)

dims == 3

kRadius == 4

DBL_MAX == 1000000

MaxN == 3

NotExited == 0 - 1

NoQuery == 0 - 1

RECURSIVE GCD(_, _)
GCD(a, b) == IF b = 0 THEN a ELSE GCD(b, a % b)

RECURSIVE LcmUpTo(_)
LcmUpTo(n) == IF n <= 1 THEN 1 ELSE (n * LcmUpTo(n - 1)) \div GCD(n, LcmUpTo(n - 1))

Scale == LcmUpTo(MaxN)

Real(x) == x * Scale

One == Real(1)

NaN == 0 - DBL_MAX

Mul(a, b) == (a * b) \div Scale

Div(a, n) == IF n = 0 THEN NaN ELSE a \div n

Dim == 0 .. (dims - 1)

Empty == << >>

(* The candidate vertices of the input files, in file units *)
Candidates ==
    { <<0 - 1, 0, 0>>, <<1, 0, 0>>, <<0, 0, 3>>, <<0, 0, 1>>, <<0, 0, 0 - 3>>,
      <<0, 4, 2>> }

----------------------------------------------------------------------------
(* alglib and C library primitives *)

abs(x) == IF x < 0 THEN 0 - x ELSE x

RECURSIVE SumTo(_, _)
SumTo(f, n) == IF n <= 0 THEN 0 ELSE SumTo(f, n - 1) + f[n - 1]

Dist2(p, q) == SumTo([d \in Dim |-> (p[d] - q[d]) * (p[d] - q[d])], dims)

NoTree == [built |-> FALSE, n |-> 0, xy |-> Empty, tags |-> Empty, buf |-> Empty]

Garbage == [d \in Dim |-> NaN]

kdtreebuildtagged(xy, tg, n) ==
    [built |-> TRUE,
     n     |-> n,
     xy    |-> [j \in 0 .. (n - 1) |-> IF j \in DOMAIN xy THEN xy[j] ELSE Garbage],
     tags  |-> [j \in 0 .. (n - 1) |-> IF j \in DOMAIN tg THEN tg[j] ELSE 0],
     buf   |-> Empty]

kdtreebuild(xy, n) == kdtreebuildtagged(xy, [j \in 0 .. (n - 1) |-> 0], n)

InRadius(t, q, r) ==
    { j \in 0 .. (t.n - 1) : Dist2(t.xy[j], q) <= Real(r) * Real(r) }

Orderings(S) ==
    { f \in [0 .. (Cardinality(S) - 1) -> S] :
        \A a, b \in DOMAIN f : a # b => f[a] # f[b] }

(* the result buffers a radius query may leave in the tree: the indexed     *)
(* points within the radius, in any order                                   *)
kdtreequeryrnn(t, q, r) == Orderings(InRadius(t, q, r))

kdtreequeryresultsx(t) == [u \in DOMAIN t.buf |-> t.xy[t.buf[u]]]

kdtreequeryresultstags(t) == [u \in DOMAIN t.buf |-> t.tags[t.buf[u]]]

ColSum(pts, n, d) == SumTo([u \in 0 .. (n - 1) |-> pts[u][d]], n)

Cross(pts, n, d, e) ==
    n * SumTo([u \in 0 .. (n - 1) |-> pts[u][d] * pts[u][e]], n)
        - ColSum(pts, n, d) * ColSum(pts, n, e)

(* position of axis d when the axes are put in descending order of their   *)
(* variances s2, equal variances in the order of the axes                   *)
AxisRank(s2, d) ==
    Cardinality({ e \in Dim : s2[e] > s2[d] \/ (s2[e] = s2[d] /\ e < d) })

AxisSign(pts, n, d) == IF ColSum(pts, n, d) < 0 THEN 0 - 1 ELSE 1

(* basis of the principal axes of n points whose covariance is diagonal:    *)
(* column c is the unit vector of the axis with the c-th largest variance   *)
pcabuildbasis(pts, n) ==
    LET s2  == << Cross(pts, n, 0, 0), Cross(pts, n, 1, 1), Cross(pts, n, 2, 2) >>
        var == [d \in Dim |-> s2[d + 1]]
        col == << AxisRank(var, 0), AxisRank(var, 1), AxisRank(var, 2) >>
        sgn == << AxisSign(pts, n, 0), AxisSign(pts, n, 1), AxisSign(pts, n, 2) >>
    IN  [r \in Dim |-> [c \in Dim |->
            IF col[r + 1] = c THEN Real(sgn[r + 1]) ELSE 0]]

----------------------------------------------------------------------------
(* Functions of FinalProject.cpp *)

adaptDataPoints(vs, numberOfVertices) ==
    [vertex \in 0 .. (numberOfVertices - 1) |->
        [d \in Dim |-> vs[vertex * dims + d]]]

buildKDTreeShort(pts, n) == kdtreebuild(pts, n - 1)

buildKDTree(pts, n) == kdtreebuild(pts, n)

buildTaggedKDTree(pts, tg, n) == kdtreebuildtagged(pts, tg, n)

RECURSIVE CentroidSum(_, _, _)
CentroidSum(pts, n, d) ==
    IF n <= 0 THEN 0 ELSE CentroidSum(pts, n - 1, d) + pts[n - 1][d]

calculateCentroidShort(pts, n) == [d \in Dim |-> Div(CentroidSum(pts, n - 1, d), n)]

calculateCentroidFirst(pts, n) ==
    [d \in Dim |-> IF 0 \in DOMAIN pts THEN pts[0][d] ELSE NaN]

calculateCentroid(pts, n) == [d \in Dim |-> Div(CentroidSum(pts, n, d), n)]

calculateNormal(pts, n) ==
    LET V == pcabuildbasis(pts, n) IN [d \in Dim |-> V[dims - 1][d]]

(* getKNeighbors and getKNeighborsTagged, for the result buffer buf the     *)
(* query leaves in the tree                                                 *)
getKNeighbors(t, buf) ==
    LET q == [t EXCEPT !.buf = buf]
    IN  [kdt |-> q, result |-> kdtreequeryresultsx(q), k |-> Cardinality(DOMAIN buf)]

getKNeighborsTagged(t, buf) ==
    LET q == [t EXCEPT !.buf = buf]
    IN  [kdt |-> q, result |-> kdtreequeryresultsx(q),
         tags |-> kdtreequeryresultstags(q), k |-> Cardinality(DOMAIN buf)]

(* a[j], or what an unwritten element holds *)
At(a, j) == IF j \in DOMAIN a THEN a[j] ELSE Garbage

Store(a, j, x) == [m \in (DOMAIN a) \cup {j} |-> IF m = j THEN x ELSE a[m]]

LoadFailedNever(ret) == FALSE

LoadFailed(ret) == ~ret

MorePointsOnce(idx, n) == idx < n /\ idx < 1

MorePoints(idx, n) == idx < n

MoreCentroids(idx, n) == idx < n

TagOfZero(idx) == 0

TagOf(idx) == idx

OffDiagonalUpper(u, v) == u < v

OffDiagonal(u, v) == u # v

WeightBySlot(u, v, nrm, tg) ==
    IF OffDiagonal(u, v)
    THEN LET w1 == One - abs(Mul(At(nrm, u)[0], At(nrm, v)[0]))
             w2 == w1 - abs(Mul(At(nrm, u)[1], At(nrm, v)[1]))
         IN  w2 - abs(Mul(At(nrm, u)[2], At(nrm, v)[2]))
    ELSE DBL_MAX

Weight(u, v, nrm, tg) ==
    IF OffDiagonal(u, v)
    THEN LET w1 == One - abs(Mul(At(nrm, tg[u])[0], At(nrm, tg[v])[0]))
             w2 == w1 - abs(Mul(At(nrm, tg[u])[1], At(nrm, tg[v])[1]))
         IN  w2 - abs(Mul(At(nrm, tg[u])[2], At(nrm, tg[v])[2]))
    ELSE DBL_MAX

----------------------------------------------------------------------------
(* Inputs *)

Size(vs) == Cardinality(DOMAIN vs)

Flatten(c) ==
    [m \in 0 .. (Len(c) * dims - 1) |-> Real(c[(m \div dims) + 1][(m % dims) + 1])]

(* every neighbourhood of the cloud has a diagonal covariance, the case     *)
(* pcabuildbasis above is the principal component analysis of               *)
WellConditioned(vs) ==
    LET n   == Size(vs) \div dims
        pts == adaptDataPoints(vs, n)
        t   == buildKDTree(pts, n)
    IN  \A j \in 0 .. (n - 1) :
            LET hit == InRadius(t, pts[j], kRadius)
                f   == CHOOSE g \in Orderings(hit) : TRUE
                nb  == [u \in DOMAIN f |-> pts[f[u]]]
            IN  \A d, e \in Dim : d # e => Cross(nb, Cardinality(hit), d, e) = 0

Sources ==
    { vs \in { Flatten(c) : c \in UNION { [1 .. n -> Candidates] : n \in 0 .. MaxN } } :
        WellConditioned(vs) }

----------------------------------------------------------------------------
(* main *)

Init ==
    /\ pc = "load"
    /\ source \in Sources
    /\ loaded = FALSE
    /\ exitStatus = NotExited
    /\ vertices = Empty
    /\ nPoints = 0
    /\ points = Empty
    /\ kdt = NoTree
    /\ normals = Empty
    /\ centroids = Empty
    /\ tagsCentroids = Empty
    /\ i = 0
    /\ neighbors = Empty
    /\ k = NoQuery
    /\ pcaV = Empty
    /\ tags = Empty
    /\ kdtCentroids = NoTree
    /\ taggedBuilds = 0
    /\ graph = Empty
    /\ liveGraphs = 0
    /\ run = 1
    /\ prevCentroids = Empty
    /\ prevNormals = Empty

runVars == <<run, prevCentroids, prevNormals>>

(* lines 253-260 *)
LoadCloud ==
    /\ pc = "load"
    /\ \E ret \in BOOLEAN :
        /\ loaded' = ret
        /\ vertices' = IF ret THEN source ELSE Empty
        /\ IF LoadFailed(ret)
           THEN pc' = "done" /\ exitStatus' = 1
           ELSE pc' = "adapt" /\ exitStatus' = exitStatus
    /\ UNCHANGED <<source, nPoints, points, kdt, normals, centroids, tagsCentroids,
                   i, neighbors, k, pcaV, tags, kdtCentroids, taggedBuilds, graph,
                   liveGraphs, runVars>>

(* lines 264-266 *)
AdaptData ==
    /\ pc = "adapt"
    /\ nPoints' = Size(vertices) \div dims
    /\ points' = adaptDataPoints(vertices, nPoints')
    /\ pc' = "build"
    /\ UNCHANGED <<source, loaded, exitStatus, vertices, kdt, normals, centroids,
                   tagsCentroids, i, neighbors, k, pcaV, tags, kdtCentroids,
                   taggedBuilds, graph, liveGraphs, runVars>>

(* lines 270-286 *)
BuildTree ==
    /\ pc = "build"
    /\ kdt' = buildKDTree(points, nPoints)
    /\ i' = 0
    /\ pc' = "pass1"
    /\ UNCHANGED <<source, loaded, exitStatus, vertices, nPoints, points, normals,
                   centroids, tagsCentroids, neighbors, k, pcaV, tags, kdtCentroids,
                   taggedBuilds, graph, liveGraphs, runVars>>

(* lines 286-319, one iteration *)
EstimatePlane ==
    /\ pc = "pass1"
    /\ MorePoints(i, nPoints)
    /\ \E buf \in kdtreequeryrnn(kdt, points[i], kRadius) :
        LET q == getKNeighbors(kdt, buf)
        IN  /\ kdt' = q.kdt
            /\ neighbors' = q.result
            /\ k' = q.k
            /\ centroids' = Store(centroids, i, calculateCentroid(q.result, q.k))
            /\ tagsCentroids' = Store(tagsCentroids, i, TagOf(i))
            /\ pcaV' = pcabuildbasis(q.result, q.k)
            /\ normals' = Store(normals, i, calculateNormal(q.result, q.k))
    /\ i' = i + 1
    /\ UNCHANGED <<pc, source, loaded, exitStatus, vertices, nPoints, points, tags,
                   kdtCentroids, taggedBuilds, graph, liveGraphs, runVars>>

(* lines 319-331: the first loop ends and its locals go out of scope, the   *)
(* tagged tree is built.  kdt is not used again: the result buffer its last *)
(* query left is dead and is dropped from the state.                        *)
BuildTagged ==
    /\ pc = "pass1"
    /\ ~MorePoints(i, nPoints)
    /\ kdtCentroids' = buildTaggedKDTree(centroids, tagsCentroids, nPoints)
    /\ taggedBuilds' = taggedBuilds + 1
    /\ kdt' = [kdt EXCEPT !.buf = Empty]
    /\ neighbors' = Empty
    /\ pcaV' = Empty
    /\ i' = 0
    /\ pc' = "pass2"
    /\ UNCHANGED <<source, loaded, exitStatus, vertices, nPoints, points,
                   normals, centroids, tagsCentroids, k, tags,
                   graph, liveGraphs, runVars>>

(* lines 331-341, the query of one iteration *)
QueryCentroid ==
    /\ pc = "pass2"
    /\ MoreCentroids(i, nPoints)
    /\ \E buf \in kdtreequeryrnn(kdtCentroids, At(centroids, i), kRadius) :
        LET q == getKNeighborsTagged(kdtCentroids, buf)
        IN  /\ kdtCentroids' = q.kdt
            /\ neighbors' = q.result
            /\ tags' = q.tags
            /\ k' = q.k
    /\ pc' = "graph"
    /\ UNCHANGED <<source, loaded, exitStatus, vertices, nPoints, points, kdt,
                   normals, centroids, tagsCentroids, i, pcaV, taggedBuilds, graph,
                   liveGraphs, runVars>>

(* lines 352-377, the weight matrix of one iteration; it is never deleted *)
BuildGraph ==
    /\ pc = "graph"
    /\ graph' = [u \in 0 .. (k - 1) |-> [v \in 0 .. (k - 1) |-> Weight(u, v, normals, tags)]]
    /\ liveGraphs' = liveGraphs + 1
    /\ i' = i + 1
    /\ pc' = "pass2"
    /\ UNCHANGED <<source, loaded, exitStatus, vertices, nPoints, points, kdt,
                   normals, centroids, tagsCentroids, neighbors, k, pcaV, tags,
                   kdtCentroids, taggedBuilds, runVars>>

(* line 380 *)
Return0 ==
    /\ pc = "pass2"
    /\ ~MoreCentroids(i, nPoints)
    /\ exitStatus' = 0
    /\ pc' = "done"
    /\ UNCHANGED <<source, loaded, vertices, nPoints, points, kdt, normals,
                   centroids, tagsCentroids, i, neighbors, k, pcaV, tags,
                   kdtCentroids, taggedBuilds, graph, liveGraphs, runVars>>

(* a second run of main on the same file: the process starts afresh, the    *)
(* loader returns the same vertices                                         *)
Rerun ==
    /\ pc = "done"
    /\ exitStatus = 0
    /\ run = 1
    /\ run' = 2
    /\ prevCentroids' = centroids
    /\ prevNormals' = normals
    /\ pc' = "adapt"
    /\ exitStatus' = NotExited
    /\ nPoints' = 0
    /\ points' = Empty
    /\ kdt' = NoTree
    /\ normals' = Empty
    /\ centroids' = Empty
    /\ tagsCentroids' = Empty
    /\ i' = 0
    /\ neighbors' = Empty
    /\ k' = NoQuery
    /\ pcaV' = Empty
    /\ tags' = Empty
    /\ kdtCentroids' = NoTree
    /\ taggedBuilds' = 0
    /\ graph' = Empty
    /\ liveGraphs' = 0
    /\ UNCHANGED <<source, loaded, vertices>>

Next ==
    \/ LoadCloud
    \/ AdaptData
    \/ BuildTree
    \/ EstimatePlane
    \/ BuildTagged
    \/ QueryCentroid
    \/ BuildGraph
    \/ Return0

Spec == Init /\ [][Next]_vars

NextTwoRuns == Next \/ Rerun

SpecTwoRuns == Init /\ [][NextTwoRuns]_vars

----------------------------------------------------------------------------
(* Properties *)

Slots == 0 .. (k - 1)

Indices == 0 .. (nPoints - 1)

NoGeometry ==
    /\ DOMAIN points = {}
    /\ ~kdt.built
    /\ ~kdtCentroids.built
    /\ k = NoQuery
    /\ DOMAIN centroids = {}
    /\ DOMAIN normals = {}
    /\ DOMAIN neighbors = {}
    /\ DOMAIN graph = {}

(* C1: main returns 1 exactly when loadCloud returned false, and then no    *)
(* geometry step was taken (no adapted points, no tree, no query, no        *)
(* centroid, normal or weight); when loadCloud returned true it returns 0.  *)
C1_ExitStatus ==
    /\ pc = "done" => /\ exitStatus \in {0, 1}
                      /\ exitStatus = 1 <=> ~loaded
                      /\ loaded => exitStatus = 0
    /\ pc # "done" => exitStatus = NotExited
    /\ (pc # "load" /\ ~loaded) => (pc = "done" /\ exitStatus = 1 /\ NoGeometry)

C1_Witness == pc = "done" /\ exitStatus = 1 /\ Size(source) >= 2 * dims

(* C2: every radius query of the pipeline returns k >= 1 and contains the   *)
(* query point itself, so no centroid is the result of a division by zero.  *)
C2_SelfInclusion ==
    /\ k # NoQuery => k >= 1
    /\ (pc = "pass1" /\ i > 0) => \E u \in Slots : neighbors[u] = points[i - 1]
    /\ pc = "graph" => \E u \in Slots : neighbors[u] = centroids[i] /\ tags[u] = i
    /\ \A j \in DOMAIN centroids : \A d \in Dim : centroids[j][d] # NaN

C2_Witness == pc = "graph" /\ k = 1 /\ nPoints >= 2 /\ i = nPoints - 1

(* C3: the centroid tree carries tag j on centroid j, and in every centroid *)
(* query each returned tag is an index of the cloud whose centroid is the   *)
(* neighbor returned in the same slot, within the radius of the query       *)
(* centroid; also when several centroids coincide.                          *)
C3_TagRoundTrip ==
    /\ kdtCentroids.built =>
          \A j \in Indices : kdtCentroids.tags[j] = j /\ At(tagsCentroids, j) = j
    /\ pc = "graph" =>
          \A u \in Slots :
              /\ tags[u] \in Indices
              /\ At(centroids, tags[u]) = neighbors[u]
              /\ tags[u] \in DOMAIN normals
              /\ Dist2(neighbors[u], centroids[i]) <= Real(kRadius) * Real(kRadius)

C3_Witness ==
    /\ pc = "graph"
    /\ \E u, v \in Slots : u # v /\ neighbors[u] = neighbors[v] /\ tags[u] # tags[v]
    /\ \E u \in Slots : tags[u] # u

(* C4: in every weight matrix every diagonal entry is DBL_MAX and no        *)
(* off-diagonal entry is.                                                   *)
C4_Diagonal ==
    (pc = "pass2" /\ i > 0) =>
        /\ DOMAIN graph = Slots
        /\ \A u, v \in Slots :
              /\ u = v => graph[u][v] = DBL_MAX
              /\ u # v => graph[u][v] # DBL_MAX

C4_Witness == pc = "pass2" /\ i > 0 /\ k >= 3 /\ graph[0][1] # graph[0][2]

RECURSIVE SumOfSet(_, _)
SumOfSet(f, S) ==
    IF S = {} THEN 0 ELSE LET x == CHOOSE y \in S : TRUE IN f[x] + SumOfSet(f, S \ {x})

(* C5: the centroid stored for point i-1 is, in every dimension, the sum of *)
(* the k neighbors of its query divided by k; for k = 1 it is the neighbor. *)
C5_Mean ==
    (pc = "pass1" /\ i > 0) =>
        /\ \A d \in Dim :
              centroids[i - 1][d] * k = SumOfSet([u \in Slots |-> neighbors[u][d]], Slots)
        /\ k = 1 => centroids[i - 1] = neighbors[0]

C5_Witness ==
    /\ pc = "pass1" /\ i > 0 /\ k >= 3
    /\ \A u \in Slots : centroids[i - 1] # neighbors[u]

(* C6: the normal calculateNormal returns is the last column of the basis   *)
(* matrix V of pcabuildbasis: normal[d] = V[d][dims-1].                     *)
C6_LastColumn ==
    (pc = "pass1" /\ i > 0) => \A d \in Dim : normals[i - 1][d] = pcaV[d][dims - 1]

C7_WitnessAbs ==
    /\ pc = "pass2" /\ i > 0
    /\ \E u, v \in Slots : u # v /\ Mul(normals[tags[u]][0], normals[tags[v]][0]) < 0

(* C8: at the start of every iteration of the centroid loop no weight       *)
(* matrix of an earlier iteration is still allocated, and at most one is    *)
(* ever live.                                                               *)
C8_Released ==
    /\ liveGraphs <= 1
    /\ (pc = "pass2" /\ MoreCentroids(i, nPoints)) => liveGraphs = 0

(* C9: the tagged centroid tree is built exactly once, after all nPoints    *)
(* centroids, normals and tags have been written, over exactly those        *)
(* centroids; every centroid query and weight comes after the build and     *)
(* reads only written normals.                                              *)
C9_BuiltOnceAfterPlanes ==
    /\ taggedBuilds <= 1
    /\ kdtCentroids.built <=> taggedBuilds = 1
    /\ kdtCentroids.built =>
          /\ DOMAIN centroids = Indices
          /\ DOMAIN normals = Indices
          /\ DOMAIN tagsCentroids = Indices
          /\ kdtCentroids.n = nPoints
          /\ \A j \in Indices :
                tagsCentroids[j] = j /\ kdtCentroids.xy[j] = centroids[j]
    /\ (pc \in {"pass2", "graph"} \/ DOMAIN graph # {} \/ DOMAIN tags # {}) =>
          kdtCentroids.built
    /\ pc = "graph" => \A u \in Slots : tags[u] \in DOMAIN normals
    /\ (pc = "done" /\ exitStatus = 0) => taggedBuilds = 1

C9_Witness == pc = "pass2" /\ i = nPoints /\ nPoints >= 2 /\ DOMAIN graph # {}

====
